---- MODULE Spec2Model ----
(***************************************************************************)
(* The 2D character-movement demo of realm-poc-viewer.                      *)
(*                                                                         *)
(* The repository holds two implementations of Character and Game:         *)
(*   "module": src/src/Character.js (= Character.ts) and src/src/Game.js   *)
(*             (= Game.ts): delta-time-scaled update, normalising           *)
(*             setDirection, one key at a time;                            *)
(*   "script": src/unnamed/part_000: fixed 10 px step per update,           *)
(*             setDirection stores its arguments as given, held-key set,   *)
(*             canvas resize handler.                                      *)
(* The variable impl says which one is loaded.  The variable host says who *)
(* drives the character: the Game of that implementation ("game"), or a    *)
(* caller using the Character class directly ("direct").  The variable     *)
(* loop is the Game's frame loop.                                          *)
(*                                                                         *)
(* src/main.js holds three scene-loading scripts; the variable scene is    *)
(* the state of the one on the page, under the specification SpecScene.    *)
(*                                                                         *)
(* Numbers.  A JavaScript number is modelled as a record [k, a, b]:        *)
(*   k = "num"   the real (a + b * sqrt(2)) / Unit                         *)
(*   k = "inf"   +Infinity (a = 1) or -Infinity (a = -1)                    *)
(*   k = "nan"   NaN                                                       *)
(*   k = "undef" undefined (a missing property)                            *)
(* Reals are exact: the directions the program produces are 0, +-1 and     *)
(* +-1/sqrt(2), so every position is of the form (a + b*sqrt(2)) / Unit.   *)
(* IEEE rounding is not modelled.                                          *)
(***************************************************************************)
EXTENDS Integers, FiniteSets, Sequences, TLC

VARIABLES impl, host, x, y, speed, direction, boundary, keys, frames, last, ret,
          loop, scene

vars == <<impl, host, x, y, speed, direction, boundary, keys, frames, last, ret,
          loop, scene>>

----------------------------------------------------------------------------
(* Bounds and program constants *)

\* updates a behaviour may perform
MaxFrames == 2

\* update: (deltaTime / 1000)
MsPerSecond == 1000

\* positions are held in 1/Unit px; every displacement the inputs below
\* produce is a whole number of these
Unit == MsPerSecond \div 20

\* part_000 update: the fixed step this.x - 10, this.x + 10
FixedStep == 10

\* isCollidingWith(other, radius = 32)
DefaultRadius == 32

\* Character constructor default: startX = 0, startY = 0
DefaultStart == 0

\* Game constructor: new Character(400, 300, 5, ...) / (400, 300, 5000, ...)
GameStartX == 400
GameStartY == 300
GameSpeedModule == 5
GameSpeedScript == 5000

\* Game.gameLoop of Game.js: this.update(16)
FrameMs == 16

\* scene.render() calls followed, animation groups of a loaded asset, and
\* engine.resize() calls followed
MaxRenders == 2
MaxAnimGroups == 2
MaxResizes == 1

----------------------------------------------------------------------------
(* JavaScript numbers *)

Num(a, b) == [k |-> "num", a |-> a, b |-> b]
Px(n) == Num(n * Unit, 0)
PosInf == [k |-> "inf", a |-> 1, b |-> 0]
NegInf == [k |-> "inf", a |-> -1, b |-> 0]
NaN == [k |-> "nan", a |-> 0, b |-> 0]
Undefined == [k |-> "undef", a |-> 0, b |-> 0]
Zero == Num(0, 0)

\* ToNumber: undefined converts to NaN
ToNumber(v) == IF v.k = "undef" THEN NaN ELSE v

\* u/v < 1 + sqrt(2) (less = TRUE) or u/v > 1 + sqrt(2) (less = FALSE), for
\* integers u, v > 0, by the continued fraction 1 + sqrt(2) = 2 + 1/(1 + sqrt(2));
\* exact, and without the squares that would leave the integer range
RECURSIVE CmpSilver(_, _, _)
CmpSilver(u, v, less) ==
    LET q == u \div v
        r == u - 2 * v
    IN  IF q <= 1 THEN less
        ELSE IF q >= 3 THEN ~less
        ELSE IF r = 0 THEN less
        ELSE CmpSilver(v, r, ~less)

\* p > q*sqrt(2) for integers p, q > 0: sqrt(2) = 1 + 1/(1 + sqrt(2))
GtSqrt2(p, q) ==
    IF p \div q >= 2 THEN TRUE
    ELSE IF p <= q THEN FALSE
    ELSE CmpSilver(q, p - q, TRUE)

\* the sign of the real a + b*sqrt(2), exactly
Sign(a, b) ==
    IF a >= 0 /\ b >= 0 THEN (IF a = 0 /\ b = 0 THEN 0 ELSE 1)
    ELSE IF a <= 0 /\ b <= 0 THEN -1
    ELSE IF a > 0 THEN (IF GtSqrt2(a, -b) THEN 1 ELSE -1)
    ELSE (IF GtSqrt2(-a, b) THEN -1 ELSE 1)

\* p < q as JavaScript evaluates it: false when either side is NaN
Lt(p0, q0) ==
    LET p == ToNumber(p0)
        q == ToNumber(q0)
    IN  IF p.k = "nan" \/ q.k = "nan" THEN FALSE
        ELSE IF p.k = "inf" THEN p.a = -1 /\ ~(q.k = "inf" /\ q.a = -1)
        ELSE IF q.k = "inf" THEN q.a = 1
        ELSE Sign(p.a - q.a, p.b - q.b) < 0

Le(p, q) == Lt(p, q) \/ (ToNumber(p).k # "nan" /\ ToNumber(p) = ToNumber(q))

\* Math.min / Math.max: NaN when either argument converts to NaN
MathMin(p0, q0) ==
    LET p == ToNumber(p0)
        q == ToNumber(q0)
    IN  IF p.k = "nan" \/ q.k = "nan" THEN NaN
        ELSE IF Lt(q, p) THEN q ELSE p

MathMax(p0, q0) ==
    LET p == ToNumber(p0)
        q == ToNumber(q0)
    IN  IF p.k = "nan" \/ q.k = "nan" THEN NaN
        ELSE IF Lt(p, q) THEN q ELSE p

Neg(p) ==
    IF p.k = "num" THEN Num(-p.a, -p.b)
    ELSE IF p.k = "inf" THEN [p EXCEPT !.a = -p.a]
    ELSE p

\* p + q
Add(p0, q0) ==
    LET p == ToNumber(p0)
        q == ToNumber(q0)
    IN  IF p.k = "nan" \/ q.k = "nan" THEN NaN
        ELSE IF p.k = "inf" /\ q.k = "inf" THEN (IF p.a = q.a THEN p ELSE NaN)
        ELSE IF p.k = "inf" THEN p
        ELSE IF q.k = "inf" THEN q
        ELSE Num(p.a + q.a, p.b + q.b)

Sub(p, q) == Add(p, Neg(ToNumber(q)))

\* d * s * (dt / 1000) for a finite direction component d and integers s, dt
Displacement(d, s, dt) ==
    Num((d.a * s * dt) \div MsPerSecond, (d.b * s * dt) \div MsPerSecond)

----------------------------------------------------------------------------
(* Inputs *)

\* setDirection arguments: -1, 0, 1 per axis (the documented values, and the
\* only ones either Game passes)
DirInputs == {-1, 0, 1}

\* speeds a caller passes to the constructor or to setSpeed
SpeedInputs == {-5, 5}

\* update(deltaTime) arguments of a direct caller, in ms
DeltaTimes == {0, MsPerSecond}

\* now - this.lastTime of part_000's gameLoop, in ms (0: both frames fall in
\* the same tick of the clock)
Elapsed == {0, FrameMs}

\* canvas sizes of the page (Game.js reads canvas.width, canvas.height)
CanvasSizes == {<<300, 150>>, <<800, 600>>}

\* window.innerWidth, window.innerHeight (part_000 resizeCanvas)
WindowSizes == {<<1000, 750>>, <<250, 250>>}

ArrowKeys == {"ArrowUp", "ArrowDown", "ArrowLeft", "ArrowRight"}

\* A boundary is a record of its four bounds; the field given says whether
\* it is an object a caller supplied (TRUE) or stands for no object at all.
\* { minX: 0, maxX: w, minY: 0, maxY: h }
Rect(w, h) == [given |-> TRUE, minX |-> Zero, maxX |-> Px(w),
               minY |-> Zero, maxY |-> Px(h)]
\* the boundary argument left out
Absent == [given |-> FALSE, minX |-> Undefined, maxX |-> Undefined,
           minY |-> Undefined, maxY |-> Undefined]
\* the boundary argument of the constructor: absent, complete, or an object
\* that lacks some of its bounds
BoundaryArgs ==
    { Absent,
      Rect(800, 600),
      [Rect(800, 600) EXCEPT !.maxX = Undefined, !.minY = Undefined] }

\* constructor arguments startX, startY of a direct caller
StartInputs == {<<DefaultStart, DefaultStart>>, <<810, 300>>}

\* the getters of Character
Getters == {"getX", "getY", "getPosition", "getSpeed"}

\* the calls isCollidingWith({x, y}, radius) a direct caller makes, as
\* <<x, y, radius>>
Queries == {<<50, 0, DefaultRadius>>, <<64, 0, DefaultRadius>>,
            <<70, 0, DefaultRadius>>, <<50, 0, 25>>}

----------------------------------------------------------------------------
(* Character *)

\* mutant of CtorBoundary: this.boundary = boundary, the default left out
CtorBoundaryNoDefault(arg) == arg

\* constructor: this.boundary = boundary || { -Infinity, Infinity, ... }
CtorBoundary(arg) ==
    IF arg.given
    THEN arg
    ELSE [given |-> FALSE, minX |-> NegInf, maxX |-> PosInf,
          minY |-> NegInf, maxY |-> PosInf]

\* constructor: this.speed = speed
CtorSpeed(s) == s

\* mutant of UpdateAxisModule: Math.min and Math.max exchanged
UpdateAxisModuleSwapped(pos, dir, s, dt, lo, hi) ==
    MathMin(lo, MathMax(hi, Add(pos, Displacement(dir, s, dt))))

\* Character.js update, one axis:
\*   Math.max(min, Math.min(max, pos + dir * speed * (deltaTime / 1000)))
UpdateAxisModule(pos, dir, s, dt, lo, hi) ==
    MathMax(lo, MathMin(hi, Add(pos, Displacement(dir, s, dt))))

\* part_000 update, one axis:
\*   if (dir < 0) pos = Math.max(min, pos - 10);
\*   if (dir > 0) pos = Math.min(max, pos + 10);
UpdateAxisScript(pos, dir, lo, hi) ==
    IF Lt(dir, Zero) THEN MathMax(lo, Sub(pos, Px(FixedStep)))
    ELSE IF Lt(Zero, dir) THEN MathMin(hi, Add(pos, Px(FixedStep)))
    ELSE pos

UpdateAxis(im, pos, dir, s, dt, lo, hi) ==
    IF im = "module" THEN UpdateAxisModule(pos, dir, s, dt, lo, hi)
    ELSE UpdateAxisScript(pos, dir, lo, hi)

\* Math.sqrt(n) of the integer n = x*x + y*y: k for n = k*k, k*sqrt(2) for
\* n = 2*k*k
Sqrt(n) ==
    IF \E k \in 0..n : k * k = n
    THEN Num(Unit * (CHOOSE k \in 0..n : k * k = n), 0)
    ELSE Num(0, Unit * (CHOOSE k \in 0..n : 2 * k * k = n))

\* n / len for an integer n and a real len # 0:
\*   n / (p + q*sqrt(2)) = n * (p - q*sqrt(2)) / (p*p - 2*q*q)
Div(n, len) ==
    LET den == len.a * len.a - 2 * len.b * len.b
    IN  Num((n * Unit * Unit * len.a) \div den, (-(n * Unit * Unit * len.b)) \div den)

\* Character.js setDirection: normalise
SetDirectionModule(dx, dy) ==
    LET length == Sqrt(dx * dx + dy * dy)
    IN  IF Lt(Zero, length)
        THEN [x |-> Div(dx, length), y |-> Div(dy, length)]
        ELSE [x |-> Zero, y |-> Zero]

\* part_000 setDirection: store as given
SetDirectionScript(dx, dy) == [x |-> Px(dx), y |-> Px(dy)]

SetDirectionOf(im, dx, dy) ==
    IF im = "module" THEN SetDirectionModule(dx, dy) ELSE SetDirectionScript(dx, dy)

\* setSpeed: this.speed = Math.max(0, newSpeed)
SetSpeedOf(s) == IF s < 0 THEN 0 ELSE s

\* the square of the real (a + b*sqrt(2)) / Unit, as the pair <<c, d>> meaning
\* (c + d*sqrt(2)) / Unit^2
Square(p) == <<p.a * p.a + 2 * p.b * p.b, 2 * p.a * p.b>>

\* mutant of IsCollidingWithOf: distance <= radius * 2
IsCollidingWithOrTouching(px, py, ox, oy, radius) ==
    LET dx == Sub(px, ox)
        dy == Sub(py, oy)
        c == radius * 2 * Unit
    IN  IF dx.k # "num" \/ dy.k # "num" THEN FALSE
        ELSE LET sx == Square(dx)
                 sy == Square(dy)
             IN  c >= 0 /\ Sign(sx[1] + sy[1] - c * c, sx[2] + sy[2]) <= 0

\* isCollidingWith: Math.sqrt(dx*dx + dy*dy) < radius * 2, for finite
\* positions; the comparison sqrt(s) < c is c > 0 and s < c*c
IsCollidingWithOf(px, py, ox, oy, radius) ==
    LET dx == Sub(px, ox)
        dy == Sub(py, oy)
        c == radius * 2 * Unit
    IN  IF dx.k # "num" \/ dy.k # "num" THEN FALSE
        ELSE LET sx == Square(dx)
                 sy == Square(dy)
             IN  c > 0 /\ Sign(sx[1] + sy[1] - c * c, sx[2] + sy[2]) < 0

----------------------------------------------------------------------------
(* Game *)

\* part_000 resizeCanvas: canvas.width = window.innerWidth * 0.8
ScaleWindow(n) == (n * 8) \div 10

\* mutant of KeysDirection: else branches in place of the tests of the second
\* key of each axis
KeysDirectionElse(held) ==
    [x |-> IF "ArrowRight" \in held THEN 1 ELSE -1,
     y |-> IF "ArrowDown" \in held THEN 1 ELSE -1]

\* mutant of KeysDirection: the tests of each axis in the other order, so
\* that ArrowLeft and ArrowUp win when both keys of an axis are held
KeysDirectionLeftUpWin(held) ==
    [x |-> IF "ArrowLeft" \in held THEN -1
           ELSE IF "ArrowRight" \in held THEN 1 ELSE 0,
     y |-> IF "ArrowUp" \in held THEN -1
           ELSE IF "ArrowDown" \in held THEN 1 ELSE 0]

\* part_000 updateCharacterDirection: the arguments it passes to setDirection
KeysDirection(held) ==
    [x |-> IF "ArrowRight" \in held THEN 1
           ELSE IF "ArrowLeft" \in held THEN -1 ELSE 0,
     y |-> IF "ArrowDown" \in held THEN 1
           ELSE IF "ArrowUp" \in held THEN -1 ELSE 0]

\* mutant of GameLoopBody: the next frame is requested twice
GameLoopBodyTwice == <<"update", "draw", "requestAnimationFrame",
                       "requestAnimationFrame">>

\* gameLoop of Game.js and of part_000: the calls of its body, in order
GameLoopBody == <<"update", "draw", "requestAnimationFrame">>

\* the number of calls of f in a body
Calls(body, f) == Cardinality({i \in DOMAIN body : body[i] = f})

\* Game.js keydown: the switch on event.key
KeyDirection(key) ==
    IF key = "ArrowUp" THEN [x |-> 0, y |-> -1]
    ELSE IF key = "ArrowDown" THEN [x |-> 0, y |-> 1]
    ELSE IF key = "ArrowLeft" THEN [x |-> -1, y |-> 0]
    ELSE [x |-> 1, y |-> 0]

----------------------------------------------------------------------------
(* State *)

NoRet == [set |-> FALSE, ox |-> 0, oy |-> 0, radius |-> 0, value |-> FALSE]

\* no frame has run: nothing is scheduled with requestAnimationFrame
NoLoop == [started |-> FALSE, pending |-> 0, draws |-> 0, events |-> <<>>]

\* the page holds no scene-loading script
NoScene == [script |-> 0, load |-> "none", promise |-> "none", errors |-> 0,
            playing |-> 0, timers |-> 0, renderLoop |-> FALSE, rendered |-> 0,
            resizes |-> 0]
Op(name, dt) == [op |-> name, dt |-> dt]

\* new Character(startX, startY, speed, boundary)
Construct(sx, sy, s, arg) ==
    /\ x = Px(sx)
    /\ y = Px(sy)
    /\ speed = CtorSpeed(s)
    /\ direction = [x |-> Zero, y |-> Zero]
    /\ boundary = CtorBoundary(arg)

\* new Game(canvasId) of Game.js
InitGameModule ==
    /\ impl = "module"
    /\ host = "game"
    /\ \E c \in CanvasSizes :
         Construct(GameStartX, GameStartY, GameSpeedModule, Rect(c[1], c[2]))

\* new Game(canvasId) of part_000: resizeCanvas(), then the character
InitGameScript ==
    /\ impl = "script"
    /\ host = "game"
    /\ \E w \in WindowSizes :
         Construct(GameStartX, GameStartY, GameSpeedScript,
                   Rect(ScaleWindow(w[1]), ScaleWindow(w[2])))

\* a caller constructs a Character of either implementation itself
InitDirect ==
    /\ impl \in {"module", "script"}
    /\ host = "direct"
    /\ \E st \in StartInputs, s \in SpeedInputs, arg \in BoundaryArgs :
         Construct(st[1], st[2], s, arg)

Init ==
    /\ (InitGameModule \/ InitGameScript \/ InitDirect)
    /\ keys = {}
    /\ frames = 0
    /\ last = Op("new", 0)
    /\ ret = NoRet
    /\ loop = NoLoop
    /\ scene = NoScene

\* character.update(deltaTime)
DoUpdate(dt) ==
    /\ x' = UpdateAxis(impl, x, direction.x, speed, dt, boundary.minX, boundary.maxX)
    /\ y' = UpdateAxis(impl, y, direction.y, speed, dt, boundary.minY, boundary.maxY)

\* gameLoop runs once: called by start() the first time, and from then on
\* as the frame callback that requestAnimationFrame holds, which it uses up
RunGameLoop ==
    /\ loop.started => loop.pending > 0
    /\ loop' = [started |-> TRUE,
                pending |-> (IF loop.started THEN loop.pending - 1 ELSE 0)
                              + Calls(GameLoopBody, "requestAnimationFrame"),
                draws |-> loop.draws + Calls(GameLoopBody, "draw"),
                events |-> GameLoopBody]

\* a direct call of update
Update(dt) ==
    /\ host = "direct"
    /\ frames < MaxFrames
    /\ DoUpdate(dt)
    /\ frames' = frames + 1
    /\ last' = Op("update", dt)
    /\ ret' = NoRet
    /\ UNCHANGED <<scene, loop, impl, host, speed, direction, boundary, keys>>

\* a direct call of setDirection
SetDirection(dx, dy) ==
    /\ host = "direct"
    /\ direction' = SetDirectionOf(impl, dx, dy)
    /\ last' = Op("setDirection", 0)
    /\ ret' = NoRet
    /\ UNCHANGED <<scene, loop, impl, host, x, y, speed, boundary, keys, frames>>

\* mutant of SetSpeed: the character is stopped as well
SetSpeedStops(s) ==
    /\ host = "direct"
    /\ speed' = SetSpeedOf(s)
    /\ direction' = [x |-> Zero, y |-> Zero]
    /\ last' = Op("setSpeed", 0)
    /\ ret' = NoRet
    /\ UNCHANGED <<scene, loop, impl, host, x, y, boundary, keys, frames>>

\* a direct call of setSpeed
SetSpeed(s) ==
    /\ host = "direct"
    /\ speed' = SetSpeedOf(s)
    /\ last' = Op("setSpeed", 0)
    /\ ret' = NoRet
    /\ UNCHANGED <<scene, loop, impl, host, x, y, direction, boundary, keys, frames>>

\* a direct call of isCollidingWith(other, radius)
IsCollidingWith(q) ==
    /\ host = "direct"
    /\ ret' = [set |-> TRUE, ox |-> q[1], oy |-> q[2], radius |-> q[3],
               value |-> IsCollidingWithOf(x, y, Px(q[1]), Px(q[2]), q[3])]
    /\ last' = Op("isCollidingWith", 0)
    /\ UNCHANGED <<scene, loop, impl, host, x, y, speed, direction, boundary, keys, frames>>

\* a direct call of getX, getY, getPosition or getSpeed: each returns a
\* field, or a new object of two fields, and assigns nothing
Get(g) ==
    /\ host = "direct"
    /\ last' = Op(g, 0)
    /\ ret' = NoRet
    /\ UNCHANGED <<scene, loop, impl, host, x, y, speed, direction, boundary, keys, frames>>

\* Game.js keydown handler
KeyDownModule(key) ==
    /\ host = "game" /\ impl = "module"
    /\ direction' = SetDirectionOf(impl, KeyDirection(key).x, KeyDirection(key).y)
    /\ last' = Op("keydown", 0)
    /\ UNCHANGED <<scene, loop, impl, host, x, y, speed, boundary, keys, frames, ret>>

\* Game.js keyup handler
KeyUpModule(key) ==
    /\ host = "game" /\ impl = "module"
    /\ direction' = SetDirectionOf(impl, 0, 0)
    /\ last' = Op("keyup", 0)
    /\ UNCHANGED <<scene, loop, impl, host, x, y, speed, boundary, keys, frames, ret>>

\* part_000 keydown handler; the load listener constructs the game and
\* starts it in one turn, so every event finds the game started
KeyDownScript(key) ==
    /\ host = "game" /\ impl = "script"
    /\ loop.started
    /\ keys' = keys \cup {key}
    /\ direction' = SetDirectionOf(impl, KeysDirection(keys').x, KeysDirection(keys').y)
    /\ last' = Op("keydown", 0)
    /\ UNCHANGED <<scene, loop, impl, host, x, y, speed, boundary, frames, ret>>

\* part_000 keyup handler
KeyUpScript(key) ==
    /\ host = "game" /\ impl = "script"
    /\ loop.started
    /\ keys' = keys \ {key}
    /\ direction' = SetDirectionOf(impl, KeysDirection(keys').x, KeysDirection(keys').y)
    /\ last' = Op("keyup", 0)
    /\ UNCHANGED <<scene, loop, impl, host, x, y, speed, boundary, frames, ret>>

\* Game.js gameLoop: this.update(16); draw; requestAnimationFrame.  start()
\* is called once, as at its one call site (part_000, the load listener)
GameLoopModule ==
    /\ host = "game" /\ impl = "module"
    /\ frames < MaxFrames
    /\ RunGameLoop
    /\ DoUpdate(FrameMs)
    /\ frames' = frames + Calls(GameLoopBody, "update")
    /\ last' = Op("gameLoop", FrameMs)
    /\ UNCHANGED <<scene, impl, host, speed, direction, boundary, keys, ret>>

\* part_000 gameLoop: deltaTime = now - lastTime is computed and not used;
\* this.update() calls character.update()
GameLoopScript(deltaTime) ==
    /\ host = "game" /\ impl = "script"
    /\ frames < MaxFrames
    /\ RunGameLoop
    /\ DoUpdate(deltaTime)
    /\ frames' = frames + Calls(GameLoopBody, "update")
    /\ last' = Op("gameLoop", deltaTime)
    /\ UNCHANGED <<scene, impl, host, speed, direction, boundary, keys, ret>>

\* part_000 resizeCanvas, as the window's resize handler
ResizeCanvas(w) ==
    /\ host = "game" /\ impl = "script"
    /\ loop.started
    /\ boundary' = Rect(ScaleWindow(w[1]), ScaleWindow(w[2]))
    /\ last' = Op("resize", 0)
    /\ UNCHANGED <<scene, loop, impl, host, x, y, speed, direction, keys, frames, ret>>

Next ==
    \/ \E dt \in DeltaTimes : Update(dt)
    \/ \E dx \in DirInputs, dy \in DirInputs : SetDirection(dx, dy)
    \/ \E s \in SpeedInputs : SetSpeed(s)
    \/ \E q \in Queries : IsCollidingWith(q)
    \/ \E g \in Getters : Get(g)
    \/ \E key \in ArrowKeys : KeyDownModule(key)
    \/ \E key \in ArrowKeys : KeyUpModule(key)
    \/ \E key \in ArrowKeys : KeyDownScript(key)
    \/ \E key \in ArrowKeys : KeyUpScript(key)
    \/ GameLoopModule
    \/ \E e \in Elapsed : GameLoopScript(e)
    \/ \E w \in WindowSizes : ResizeCanvas(w)

Spec == Init /\ [][Next]_vars

----------------------------------------------------------------------------
(* Scene-loading scripts of src/main.js *)

\* the three scripts, in the order they appear in src/main.js
Scripts == 1 .. 3

\* how ImportMeshAsync settles: the promise rejects; the result has no
\* meshes array; the result has an empty meshes array; the result has a
\* mesh and the scene then holds n animation groups
LoadFailures == {"rejected", "noMeshes", "emptyMeshes"}
LoadOutcomes == [kind : LoadFailures, groups : {0}]
                  \cup [kind : {"ok"}, groups : 0 .. MaxAnimGroups]

\* does the code after the await throw, for this result of the import
\*   script 1: if (!result.meshes || result.meshes.length === 0) throw
\*   script 2: result.meshes[0] of undefined throws; model.position = ... of
\*             an undefined model throws
\*   script 3: as script 2, for character
Throws(script, o) == o.kind \in LoadFailures

\* is the await inside a try block whose catch logs and falls through
Guarded(script) == script \in {1, 3}

\* the number of console.error calls of the catch block
CatchErrors(script) == IF script = 1 THEN 2 ELSE IF script = 3 THEN 1 ELSE 0

\* the number of setTimeout(() => animGroup.stop(), 2000) the script arms
StopTimers(script, o) == IF script = 3 THEN o.groups ELSE 0

\* the number of animation groups the script starts with animGroup.play(true)
Played(script, o) == IF script \in {1, 3} THEN o.groups ELSE 0

\* createScene from the settling of the import to its own settling
AfterImport(script, o) ==
    IF ~Throws(script, o)
    THEN [promise |-> "resolved", errors |-> 0,
          playing |-> Played(script, o),
          timers |-> StopTimers(script, o)]
    ELSE IF Guarded(script)
    THEN [promise |-> "resolved", errors |-> CatchErrors(script),
          playing |-> 0, timers |-> 0]
    ELSE [promise |-> "rejected", errors |-> 0, playing |-> 0, timers |-> 0]

\* the script has run to its end: createScene() waits at the await, the
\* .then callback and the resize listener are registered
InitScene ==
    /\ impl = "none"
    /\ host = "scene"
    /\ x = Zero /\ y = Zero /\ speed = 0
    /\ direction = [x |-> Zero, y |-> Zero]
    /\ boundary = Absent
    /\ keys = {}
    /\ frames = 0
    /\ last = Op("createScene", 0)
    /\ ret = NoRet
    /\ loop = NoLoop
    /\ \E script \in Scripts :
         scene = [script |-> script, load |-> "pending", promise |-> "pending",
                  errors |-> 0, playing |-> 0, timers |-> 0,
                  renderLoop |-> FALSE, rendered |-> 0, resizes |-> 0]

SceneFrame == <<impl, host, x, y, speed, direction, boundary, keys, frames,
                ret, loop>>

\* ImportMeshAsync settles and createScene runs on to its end
ImportSettles(o) ==
    /\ scene.load = "pending"
    /\ scene' = [scene EXCEPT !.load = o.kind,
                              !.promise = AfterImport(scene.script, o).promise,
                              !.errors = AfterImport(scene.script, o).errors,
                              !.playing = AfterImport(scene.script, o).playing,
                              !.timers = AfterImport(scene.script, o).timers]
    /\ last' = Op("import", 0)
    /\ UNCHANGED SceneFrame

\* createScene().then((scene) => engine.runRenderLoop(...))
ThenRunRenderLoop ==
    /\ scene.promise = "resolved"
    /\ ~scene.renderLoop
    /\ scene' = [scene EXCEPT !.renderLoop = TRUE]
    /\ last' = Op("then", 0)
    /\ UNCHANGED SceneFrame

\* the engine calls the render loop's callback: scene.render()
Render ==
    /\ scene.renderLoop
    /\ scene.rendered < MaxRenders
    /\ scene' = [scene EXCEPT !.rendered = @ + 1]
    /\ last' = Op("render", 0)
    /\ UNCHANGED SceneFrame

\* a timer of script 3 fires: animGroup.stop()
StopAnimation ==
    /\ scene.timers > 0
    /\ scene' = [scene EXCEPT !.timers = @ - 1, !.playing = @ - 1]
    /\ last' = Op("timeout", 0)
    /\ UNCHANGED SceneFrame

\* the window's resize listener: engine.resize()
EngineResize ==
    /\ scene.resizes < MaxResizes
    /\ scene' = [scene EXCEPT !.resizes = @ + 1]
    /\ last' = Op("resize", 0)
    /\ UNCHANGED SceneFrame

NextScene ==
    \/ \E o \in LoadOutcomes : ImportSettles(o)
    \/ ThenRunRenderLoop
    \/ Render
    \/ StopAnimation
    \/ EngineResize

SpecScene == InitScene /\ [][NextScene]_vars

----------------------------------------------------------------------------
(* Properties *)

IsNumber(v) == v.k = "num"

\* every bound of b is a number or an infinity
Complete(b) == \A v \in {b.minX, b.maxX, b.minY, b.maxY} : v.k \in {"num", "inf"}

\* (px, py) lies in [minX, maxX] x [minY, maxY], bounds included
Within(px, py, b) ==
    /\ Le(b.minX, px) /\ Le(px, b.maxX)
    /\ Le(b.minY, py) /\ Le(py, b.maxY)

\* the operations that call character.update
UpdateOps == {"update", "gameLoop"}

DirZero == direction.x = Zero /\ direction.y = Zero

\* |direction|^2 = 1, exactly: (dx^2 + dy^2) * Unit^2 = Unit^2 + 0 * sqrt(2)
DirUnit ==
    /\ IsNumber(direction.x) /\ IsNumber(direction.y)
    /\ Square(direction.x)[1] + Square(direction.y)[1] = Unit * Unit
    /\ Square(direction.x)[2] + Square(direction.y)[2] = 0

\* C1: after every update the position lies within the boundary (bounds
\* included), for every complete boundary, direction, speed and deltaTime and
\* after any sequence of operations.
C1_UpdateStaysInBoundary ==
    (last.op \in UpdateOps /\ Complete(boundary)) => Within(x, y, boundary)

\* C2 (as claimed): an update with a zero direction never changes the
\* position, whatever the starting position, speed, deltaTime and boundary.
C2_ZeroDirectionNeverMoves ==
    [][(last'.op \in UpdateOps /\ DirZero) => (x' = x /\ y' = y)]_vars

\* C2 (amended): an update with a zero direction leaves a position that lies
\* within the boundary unchanged, and is idempotent from every starting
\* position: one more update, with any deltaTime, leaves the position it
\* produced unchanged.
C2_ZeroDirectionIdempotent ==
    [][(last'.op \in UpdateOps /\ DirZero) =>
          /\ Within(x, y, boundary) => (x' = x /\ y' = y)
          /\ \A dt \in DeltaTimes \cup Elapsed :
               /\ UpdateAxis(impl, x', direction.x, speed, dt,
                             boundary.minX, boundary.maxX) = x'
               /\ UpdateAxis(impl, y', direction.y, speed, dt,
                             boundary.minY, boundary.maxY) = y']_vars

\* C2 witness: a second update in a row with a zero direction and a nonzero
\* speed, at a position within the boundary.
C2_Witness ==
    /\ last.op \in UpdateOps /\ frames = 2
    /\ DirZero /\ speed # 0
    /\ Within(x, y, boundary)

\* C3: in every reachable state the stored direction is the zero vector or a
\* vector of magnitude exactly 1.
C3_DirectionZeroOrUnit == DirZero \/ DirUnit

\* C4: the speed is >= 0 in every reachable state.
C4_SpeedNonNegative == speed >= 0

\* the query isCollidingWith({x: q[1], y: q[2]}, q[3]) was the last call
Asked(q) == ret.set /\ ret.ox = q[1] /\ ret.oy = q[2] /\ ret.radius = q[3]

\* the distance between the points (px, py) and (ox, oy) is less than d, all
\* in 1/Unit px: d > 0 and (dx^2 + dy^2) - d^2 < 0.  A NaN coordinate has no
\* distance, and is below nothing.
DistanceBelow(px, py, ox, oy, d) ==
    LET sx == Square(Sub(px, ox))
        sy == Square(Sub(py, oy))
    IN  /\ IsNumber(px) /\ IsNumber(py)
        /\ d > 0
        /\ Sign(sx[1] + sy[1] - d * d, sx[2] + sy[2]) = -1

\* C5: isCollidingWith(other, radius) returns true iff the distance between
\* the character and other is strictly less than radius * 2; a distance of
\* exactly 64 is no collision at the default radius 32; the result is the same
\* with the two points swapped.
C5_CollisionIffCloserThanDiameter ==
    ret.set =>
        /\ ret.value <=> DistanceBelow(x, y, Px(ret.ox), Px(ret.oy),
                                       2 * ret.radius * Unit)
        /\ ret.value = IsCollidingWithOf(Px(ret.ox), Px(ret.oy), x, y, ret.radius)
        /\ (x = Px(0) /\ y = Px(0) /\ Asked(<<50, 0, DefaultRadius>>)) => ret.value
        /\ (x = Px(0) /\ y = Px(0) /\ Asked(<<64, 0, DefaultRadius>>)) => ~ret.value
        /\ (x = Px(0) /\ y = Px(0) /\ Asked(<<70, 0, DefaultRadius>>)) => ~ret.value

\* C5 witness: the character has moved diagonally, and a query at distance
\* below 64 answered true.
C5_Witness ==
    /\ ret.set /\ ret.value /\ ret.radius = DefaultRadius
    /\ frames > 0 /\ x.b # 0

\* C5 witness of the bound: at distance exactly 64 the answer is false.
C5_WitnessAtDiameter ==
    /\ x = Px(0) /\ y = Px(0)
    /\ Asked(<<64, 0, DefaultRadius>>) /\ ~ret.value

\* C6: with speed 0 an update does not move a character that is within its
\* boundary, whatever the direction and deltaTime.
C6_ZeroSpeedNoMovement ==
    [][(last'.op \in UpdateOps /\ speed = 0 /\ Within(x, y, boundary))
          => (x' = x /\ y' = y)]_vars

\* C7: a frame whose elapsed time is 0 does not move a character that is
\* within its boundary, whatever the direction and speed.
C7_ZeroElapsedNoMovement ==
    [][(last'.op = "gameLoop" /\ last'.dt = 0 /\ Within(x, y, boundary))
          => (x' = x /\ y' = y)]_vars

\* clamp v to [lo, hi]
Clamp(v, lo, hi) == IF Lt(v, lo) THEN lo ELSE IF Lt(hi, v) THEN hi ELSE v

\* the reference result of update on one axis:
\* clamp(pos + dir * speed * (deltaTimeMs / 1000))
ReferenceAxis(pos, dir, s, dt, lo, hi) == Clamp(Add(pos, Displacement(dir, s, dt)), lo, hi)

\* C8: for a complete boundary, the position after update is, per axis, the
\* position plus direction * speed * (deltaTimeMs / 1000), clamped to the
\* boundary.
C8_UpdateIsReference ==
    [][(last'.op \in UpdateOps /\ Complete(boundary)) =>
          /\ x' = ReferenceAxis(x, direction.x, speed, last'.dt,
                                boundary.minX, boundary.maxX)
          /\ y' = ReferenceAxis(y, direction.y, speed, last'.dt,
                                boundary.minY, boundary.maxY)]_vars

FreeStep(im, dir, s, dt) ==
    IF im = "module" THEN Displacement(dir, s, dt)
    ELSE IF Lt(dir, Zero) THEN Px(-FixedStep)
    ELSE IF Lt(Zero, dir) THEN Px(FixedStep)
    ELSE Zero

C10_ResizeThenUpdateClamps ==
    [][(last.op = "resize" /\ last'.op \in UpdateOps) => Within(x', y', boundary')]_vars

----------------------------------------------------------------------------
(* C11 *)

\* C11: a failed model load (a rejected import, or a result without
\* meshes) is logged and not fatal: in each of the three scripts createScene
\* does not reject, an error is logged by the script, and, once the .then
\* callback has had its turn, the render loop runs.
C11_LoadFailureIsNotFatal ==
    scene.load \in LoadFailures =>
        /\ scene.promise = "resolved"
        /\ scene.errors > 0
        /\ (last.op \in {"then", "render"} => scene.renderLoop)

\* the render loop runs after a failed load (scripts 1 and 3)
C11_RendersAfterFailure ==
    ~(scene.load \in LoadFailures /\ scene.renderLoop /\ scene.rendered > 0)

----------------------------------------------------------------------------
(* C12 *)

\* C12: the keyup of an arrow key resets the character's direction to
\* (0,0), in every state and after any earlier presses and releases.
C12_KeyUpResetsDirection ==
    [][last'.op = "keyup" => DirZero']_vars

\* C12, amended: the keyup of an arrow key resets the direction to (0,0) in
\* Game.js, always; in part_000 it resets the direction to (0,0) when no
\* other arrow key is still held, and leaves a direction other than (0,0)
\* when one is.
C12_KeyUpResetsUnlessKeyHeld ==
    [][last'.op = "keyup" =>
         /\ impl = "module" => DirZero'
         /\ impl = "script" => (DirZero' <=> keys' = {})]_vars

\* part_000: the second of two held keys has been released after the
\* character moved, and the direction is back at (0,0)
C12_Witness ==
    /\ last.op = "keyup" /\ host = "game" /\ impl = "script"
    /\ keys = {} /\ DirZero
    /\ x # Px(GameStartX) /\ y # Px(GameStartY)

----------------------------------------------------------------------------
(* C13 *)

\* C13: after start() the frames are strictly sequential: every gameLoop
\* run makes one character update, then one draw, then one request for the
\* next frame, so that at most one frame callback is pending at any time
\* (exactly one once the game has started).
C13_FramesAreSequential ==
    host = "game" =>
        /\ loop.pending <= 1
        /\ loop.started <=> frames > 0
        /\ loop.started => loop.pending = 1
        /\ loop.draws = frames
        /\ loop.started =>
              loop.events = <<"update", "draw", "requestAnimationFrame">>

\* the second frame has run, from the callback the first one scheduled
C13_Witness ==
    /\ host = "game" /\ last.op = "gameLoop"
    /\ frames = 2 /\ loop.draws = 2 /\ loop.pending = 1

----------------------------------------------------------------------------
(* C14 *)

\* C14: each Character operation changes only its own part of the state:
\* update changes at most the position and leaves direction, speed and
\* boundary as they were; setDirection changes at most the direction;
\* setSpeed changes at most the speed; isCollidingWith and the getters
\* change nothing.
C14_OperationsChangeOwnPartOnly ==
    [][/\ last'.op \in UpdateOps => UNCHANGED <<speed, direction, boundary>>
       /\ last'.op = "setDirection" => UNCHANGED <<x, y, speed, boundary>>
       /\ last'.op = "setSpeed" => UNCHANGED <<x, y, direction, boundary>>
       /\ last'.op \in Getters \cup {"isCollidingWith"} =>
             UNCHANGED <<x, y, speed, direction, boundary>>]_vars

\* setSpeed(-5) has set the speed of a moving character, away from its
\* start, to 0 and its direction is still the one it moved with
C14_Witness ==
    /\ host = "direct" /\ last.op = "setSpeed"
    /\ speed = 0 /\ ~DirZero /\ frames > 0
    /\ (x # Px(DefaultStart) \/ y # Px(DefaultStart))

----------------------------------------------------------------------------
(* C15 *)

\* C15: in the Game of part_000, after any sequence of arrow keydown and
\* keyup events, the direction is the function of the held keys: x is 1 if
\* ArrowRight is held, else -1 if ArrowLeft is held, else 0; y is 1 if
\* ArrowDown is held, else -1 if ArrowUp is held, else 0; it is (0,0)
\* exactly when no arrow key is held.
C15_DirectionFollowsHeldKeys ==
    (host = "game" /\ impl = "script") =>
        /\ direction.x = IF "ArrowRight" \in keys THEN Px(1)
                         ELSE IF "ArrowLeft" \in keys THEN Px(-1) ELSE Px(0)
        /\ direction.y = IF "ArrowDown" \in keys THEN Px(1)
                         ELSE IF "ArrowUp" \in keys THEN Px(-1) ELSE Px(0)
        /\ DirZero <=> keys = {}

\* the character has moved up and to the left; ArrowLeft and ArrowRight
\* are both held and ArrowUp has been released: the direction is (1, 0)
C15_Witness ==
    /\ host = "game" /\ impl = "script" /\ last.op = "keyup"
    /\ keys = {"ArrowLeft", "ArrowRight"}
    /\ direction = [x |-> Px(1), y |-> Px(0)]
    /\ x = Px(GameStartX - FixedStep) /\ y = Px(GameStartY - FixedStep)

============================================================================
